---- MODULE Spec2Model ----
(***************************************************************************)
(* Session-based paramset editing of the Homematic(IP) Local configuration *)
(* panel: the single-channel editor HmChannelConfig and the dual-endpoint  *)
(* link editor HmLinkConfig.  Every handler is cut at its awaits: one      *)
(* action runs a handler up to its next await, and the action that settles *)
(* the awaited promise (a remote call or the confirmation dialog) runs it  *)
(* on from there.  Handlers suspended at an await interleave freely; the   *)
(* only things that keep a handler from being invoked are the conditions   *)
(* of render() and the handler's own early returns.                        *)
(***************************************************************************)
EXTENDS Bags, FiniteSets, Naturals, Sequences, TLC

\* Largest number of handler invocations suspended at an await at one time.
MaxInFlight == 2

\* Parameter ids of the channel's schema and the values a control can emit.
\* None stands for "no entry" (Map.has is false), undefined and null.
Params == {"A"}
Values == {"0", "1"}
None == "none"

\* new Map(): no parameter has an entry.
NoChanges == [p \in Params |-> None]
\* _schema = null
NoSchema == [p \in Params |-> None]
\* The schemas get_form_schema can answer with: current_value per parameter.
Schemas == [Params -> Values]
\* FormParameter.default of the schema's parameters.
ParamDefault == [p \in Params |-> "1"]
\* FormParameter.writable of the schema's parameters.
ParamWritable == [p \in Params |-> TRUE]
\* validation_errors of a response, as the set of parameter ids with an error.
ErrorSets == {{}} \cup {{p} : p \in Params}

\* Parameter ids of the link's receiver paramset and of its sender paramset.
ReceiverParams == {"X"}
SenderParams == {"Y"}
\* new Map() of either endpoint, and _receiverSchema / _senderSchema = null.
NoReceiverChanges == [p \in ReceiverParams |-> None]
NoSenderChanges == [p \in SenderParams |-> None]
NoReceiverSchema == [p \in ReceiverParams |-> None]
NoSenderSchema == [p \in SenderParams |-> None]
\* The schemas get_link_form_schema can answer with for either direction.
ReceiverSchemas == [ReceiverParams -> Values]
SenderSchemas == [SenderParams -> Values]

\* A form of several parameters, for the change-tracking functions taken
\* on their own: the parameter ids and the values of current_value, default
\* and the controls.
FormParams == {"A", "B"}
FormValues == {"0", "1", "2"}
\* new Map() over the form's parameters.
NoFormChanges == [p \in FormParams |-> None]
\* The form in a run of the two controllers, which have their own schemas.
NoForm == [cur |-> NoFormChanges, def |-> NoFormChanges,
           wr |-> [p \in FormParams |-> FALSE], pending |-> NoFormChanges,
           before |-> NoFormChanges, last |-> "none"]

VARIABLES
  view,                    \* HomematicConfigPanel._view
  opened,                  \* updated() has run for the rendered element
  loading,                 \* _loading
  saving,                  \* _saving
  error,                   \* _error is non-empty
  validationErrors,        \* _validationErrors
  tasks,                   \* handler invocations suspended at an await
  toast,                   \* the notification shown by the step just taken
  declined,                \* the dialog the step just taken saw declined, or
                           \* the handler it saw return at its guard
  schema,                  \* HmChannelConfig._schema
  pendingChanges,          \* HmChannelConfig._pendingChanges
  sessionActive,           \* HmChannelConfig._sessionActive
  canUndo,                 \* HmChannelConfig._canUndo
  canRedo,                 \* HmChannelConfig._canRedo
  serverEdits,             \* the edits staged in the server's edit session
  serverSession,           \* the server holds an open edit session of the channel
  syncFailed,              \* the edits whose session_set rejected
  receiverSchema,          \* HmLinkConfig._receiverSchema
  senderSchema,            \* HmLinkConfig._senderSchema
  receiverPendingChanges,  \* HmLinkConfig._receiverPendingChanges
  senderPendingChanges,    \* HmLinkConfig._senderPendingChanges
  form                     \* a form of several parameters (FormSpec)

vars == <<view, opened, loading, saving, error, validationErrors, tasks,
          toast, declined, schema, pendingChanges, sessionActive, canUndo,
          canRedo, serverEdits, serverSession, syncFailed, receiverSchema, senderSchema,
          receiverPendingChanges, senderPendingChanges, form>>

\* The fields of HmChannelConfig and the server session behind it.
chanVars == <<schema, pendingChanges, sessionActive, canUndo, canRedo,
              serverEdits, serverSession, syncFailed>>

\* The fields of HmLinkConfig.
linkVars == <<receiverSchema, senderSchema, receiverPendingChanges,
              senderPendingChanges>>

\* The fields both elements declare under the same names.
elemVars == <<loading, saving, error, validationErrors>>

----------------------------------------------------------------------------
\* Helpers

\* A suspended handler: which handler, the await it is at, its payload.
Task(h, pc, arg) == [h |-> h, pc |-> pc, arg |-> arg]
Spawn(t) == tasks (+) SetToBag({t})
Finish(t) == tasks (-) SetToBag({t})
Become(t, u) == (tasks (-) SetToBag({t})) (+) SetToBag({u})
Advance(t, pc) == Become(t, Task(t.h, pc, t.arg))
InFlight == BagCardinality(tasks)
Waiting(h, pc) == {t \in BagToSet(tasks) : t.h = h /\ t.pc = pc}
\* The awaits a step has newly suspended a handler at.
Issued == {t.pc : t \in {u \in BagToSet(tasks') :
                           CopiesIn(u, tasks') > CopiesIn(u, tasks)}}

\* The suspended handlers of the element the router has rendered: a handler
\* belongs to the hm-channel-config or to the hm-link-config element.
Channel(S) == IF view = "channel-config" THEN S ELSE {}
Link(S) == IF view = "link-config" THEN S ELSE {}

One(p, v) == [q \in Params |-> IF q = p THEN v ELSE None]
Merge(m, arg) == [q \in DOMAIN m |-> IF arg[q] # None THEN arg[q] ELSE m[q]]
Without(m, arg) == [q \in DOMAIN m |-> IF arg[q] # None THEN None ELSE m[q]]

\* _isDirty (a Map's size > 0)
IsDirty(m) == \E p \in DOMAIN m : m[p] # None

\* A handler that kept an entry also for a value equal to current_value.
AlwaysTracked(m, p, v, cur) == [m EXCEPT ![p] = v]
\* _handleValueChanged, local tracking: delete on value === currentValue,
\* set otherwise.
TrackChange(m, p, v, cur) ==
  IF v = cur THEN [m EXCEPT ![p] = None] ELSE [m EXCEPT ![p] = v]

\* HmConfigForm._getEffectiveValue
GetEffectiveValue(m, s, p) == IF m[p] # None THEN m[p] ELSE s[p]

\* The fields of the two elements after construction.
ElementInit ==
  /\ opened = FALSE
  /\ loading = TRUE
  /\ saving = FALSE
  /\ error = FALSE
  /\ validationErrors = {}
  /\ tasks = EmptyBag
  /\ toast = "none"
  /\ declined = "none"
  /\ schema = NoSchema
  /\ pendingChanges = NoChanges
  /\ sessionActive = FALSE
  /\ canUndo = FALSE
  /\ canRedo = FALSE
  /\ serverEdits = NoChanges
  /\ serverSession = FALSE
  /\ syncFailed = NoChanges
  /\ receiverSchema = NoReceiverSchema
  /\ senderSchema = NoSenderSchema
  /\ receiverPendingChanges = NoReceiverChanges
  /\ senderPendingChanges = NoSenderChanges

Init ==
  /\ view \in {"channel-config", "link-config"}
  /\ ElementInit
  /\ form = NoForm

----------------------------------------------------------------------------
\* HmChannelConfig (single-channel Edit Session Controller)

\* render(): the loading view and the blocking error view show no controls.
MainView ==
  view = "channel-config" /\ ~loading /\ ~(error /\ schema = NoSchema)
\* render(): hm-config-form is rendered only with a schema.
FormShown == MainView /\ schema # NoSchema

\* _fetchSchema up to its first await.
FetchSchemaStart ==
  /\ loading' = TRUE
  /\ error' = FALSE
  /\ pendingChanges' = NoChanges
  /\ validationErrors' = {}
  /\ canUndo' = FALSE
  /\ canRedo' = FALSE
  /\ syncFailed' = NoChanges

\* _saving after _fetchSchema returned: _handleSave's finally block resets
\* it; updated() has no such block.
SavingAfter(t) == IF t.h = "save" THEN FALSE ELSE saving

\* updated(): the element got its entryId and channelAddress.
Open ==
  /\ view = "channel-config" /\ ~opened
  /\ InFlight < MaxInFlight
  /\ opened' = TRUE
  /\ FetchSchemaStart
  /\ tasks' = Spawn(Task("open", "getFormSchema", NoChanges))
  /\ toast' = "none" /\ declined' = "none"
  /\ UNCHANGED form
  /\ UNCHANGED <<view, saving, schema, sessionActive, serverEdits, serverSession, linkVars>>

FetchTasks(pc) == Waiting("open", pc) \cup Waiting("save", pc)

\* _fetchSchema: getFormSchema resolved, sessionOpen is issued.
GetFormSchemaOk(t) ==
  \E s \in Schemas :
    /\ schema' = s
    /\ tasks' = Advance(t, "sessionOpen")
    /\ toast' = "none" /\ declined' = "none"
    /\ UNCHANGED form
    /\ UNCHANGED <<view, opened, elemVars, pendingChanges, sessionActive,
                   canUndo, canRedo, serverEdits, serverSession, syncFailed, linkVars>>

\* A _fetchSchema that fetched again after a rejected getFormSchema.
GetFormSchemaRetry(t) ==
  /\ error' = TRUE
  /\ tasks' = Become(t, Task(t.h, "getFormSchema", One("A", "0")))
  /\ toast' = "none" /\ declined' = "none"
  /\ UNCHANGED form
  /\ UNCHANGED <<view, opened, loading, saving, validationErrors, chanVars,
                 linkVars>>

\* _fetchSchema: getFormSchema rejected; catch and finally run.
GetFormSchemaFail(t) ==
  /\ error' = TRUE
  /\ loading' = FALSE
  /\ saving' = SavingAfter(t)
  /\ tasks' = Finish(t)
  /\ toast' = "none" /\ declined' = "none"
  /\ UNCHANGED form
  /\ UNCHANGED <<view, opened, validationErrors, chanVars, linkVars>>

\* _fetchSchema: sessionOpen resolved; the server holds a fresh session.
SessionOpenOk(t) ==
  /\ sessionActive' = TRUE
  /\ loading' = FALSE
  /\ saving' = SavingAfter(t)
  /\ serverEdits' = NoChanges
  /\ serverSession' = TRUE
  /\ tasks' = Finish(t)
  /\ toast' = "none" /\ declined' = "none"
  /\ UNCHANGED form
  /\ UNCHANGED <<view, opened, error, validationErrors, schema,
                 pendingChanges, canUndo, canRedo, syncFailed, linkVars>>

\* _fetchSchema: sessionOpen rejected.
SessionOpenFail(t) ==
  /\ error' = TRUE
  /\ loading' = FALSE
  /\ saving' = SavingAfter(t)
  /\ tasks' = Finish(t)
  /\ toast' = "none" /\ declined' = "none"
  /\ UNCHANGED form
  /\ UNCHANGED <<view, opened, validationErrors, chanVars, linkVars>>

\* session_set processed by the server: the edit is staged in its session.
ServerStage(e, arg) == Merge(e, arg)

\* _handleValueChanged up to its await: a control of hm-form-parameter
\* emitted value-changed(p, v, parameter.current_value).
SetValue(p, v) ==
  /\ FormShown /\ ParamWritable[p]
  /\ pendingChanges' = TrackChange(pendingChanges, p, v, schema[p])
  /\ syncFailed' = [syncFailed EXCEPT ![p] = None]
  /\ IF sessionActive
     THEN /\ InFlight < MaxInFlight
          /\ tasks' = Spawn(Task("set", "sessionSet", One(p, v)))
     ELSE tasks' = tasks
  /\ toast' = "none" /\ declined' = "none"
  /\ UNCHANGED form
  /\ UNCHANGED <<view, opened, elemVars, schema, sessionActive, canUndo,
                 canRedo, serverEdits, serverSession, linkVars>>

\* A handler that merged the response into the flags it holds.
SessionSetMerged(t) ==
  \E cu \in BOOLEAN, cr \in BOOLEAN, errs \in ErrorSets :
    /\ canUndo' = (canUndo \/ cu)
    /\ canRedo' = (canRedo \/ cr)
    /\ validationErrors' = validationErrors \cup errs
    /\ serverEdits' = ServerStage(serverEdits, t.arg)
    /\ serverSession' = serverSession
    /\ syncFailed' = Without(syncFailed, t.arg)
    /\ tasks' = Finish(t)
    /\ toast' = "none" /\ declined' = "none"
    /\ UNCHANGED form
    /\ UNCHANGED <<view, opened, loading, saving, error, schema,
                   pendingChanges, sessionActive, linkVars>>

\* _handleValueChanged: sessionSet resolved with the session state.
SessionSetOk(t) ==
  \E cu \in BOOLEAN, cr \in BOOLEAN, errs \in ErrorSets :
    /\ canUndo' = cu
    /\ canRedo' = cr
    /\ validationErrors' = errs
    /\ serverEdits' = ServerStage(serverEdits, t.arg)
    /\ serverSession' = serverSession
    /\ syncFailed' = Without(syncFailed, t.arg)
    /\ tasks' = Finish(t)
    /\ toast' = "none" /\ declined' = "none"
    /\ UNCHANGED form
    /\ UNCHANGED <<view, opened, loading, saving, error, schema,
                   pendingChanges, sessionActive, linkVars>>

\* A catch block that reported the failed sync in the error banner.
SessionSetReported(t) ==
  /\ error' = TRUE
  /\ syncFailed' = Merge(syncFailed, t.arg)
  /\ tasks' = Finish(t)
  /\ toast' = "none" /\ declined' = "none"
  /\ UNCHANGED form
  /\ UNCHANGED <<view, opened, loading, saving, validationErrors, schema,
                 pendingChanges, sessionActive, canUndo, canRedo,
                 serverEdits, serverSession, linkVars>>
\* _handleValueChanged: sessionSet rejected; the catch block is empty.  The
\* server has not staged the edit.
SessionSetFail(t) ==
  /\ syncFailed' = Merge(syncFailed, t.arg)
  /\ tasks' = Finish(t)
  /\ toast' = "none" /\ declined' = "none"
  /\ UNCHANGED form
  /\ UNCHANGED <<view, opened, elemVars, schema, pendingChanges,
                 sessionActive, canUndo, canRedo, serverEdits, serverSession, linkVars>>

\* render(): the undo (redo) button is enabled.
UndoEnabled(h) == (IF h = "undo" THEN canUndo ELSE canRedo) /\ ~saving

\* A handler that made the call without looking at _sessionActive.
UndoRedoUnguarded(h) ==
  /\ MainView /\ UndoEnabled(h)
  /\ InFlight < MaxInFlight
  /\ tasks' = Spawn(Task(h, "sessionUndo", NoChanges))
  /\ toast' = "none" /\ declined' = IF sessionActive THEN "none" ELSE h
  /\ UNCHANGED form
  /\ UNCHANGED <<view, opened, elemVars, chanVars, linkVars>>

\* _handleUndo / _handleRedo up to the await, or to the return when no
\* session is active.
UndoRedo(h) ==
  /\ MainView /\ UndoEnabled(h)
  /\ IF sessionActive
     THEN /\ InFlight < MaxInFlight
          /\ tasks' = Spawn(Task(h, "sessionUndo", NoChanges))
     ELSE tasks' = tasks
  /\ toast' = "none" /\ declined' = IF sessionActive THEN "none" ELSE h
  /\ UNCHANGED form
  /\ UNCHANGED <<view, opened, elemVars, chanVars, linkVars>>

\* session_undo / session_redo performed by the server: a staged edit is
\* taken back, or one is staged again.
ServerUndoRedo(e, h) ==
  IF h = "undo"
  THEN {[e EXCEPT ![q] = None] : q \in Params}
  ELSE {[e EXCEPT ![q] = v] : q \in Params, v \in Values}

UndoTasks(pc) == Waiting("undo", pc) \cup Waiting("redo", pc)

\* _handleUndo / _handleRedo: the call resolved with performed = true;
\* _refreshSchemaValues issues getFormSchema.
UndoRedoPerformed(t) ==
  \E cu \in BOOLEAN, cr \in BOOLEAN :
    /\ canUndo' = cu
    /\ canRedo' = cr
    /\ serverEdits' \in ServerUndoRedo(serverEdits, t.h)
    /\ serverSession' = serverSession
    /\ tasks' = Advance(t, "refresh")
    /\ toast' = "none" /\ declined' = "none"
    /\ UNCHANGED form
    /\ UNCHANGED <<view, opened, elemVars, schema, pendingChanges,
                   sessionActive, syncFailed, linkVars>>

\* _handleUndo / _handleRedo: the call resolved with performed = false.
UndoRedoNotPerformed(t) ==
  \E cu \in BOOLEAN, cr \in BOOLEAN :
    /\ canUndo' = cu
    /\ canRedo' = cr
    /\ tasks' = Finish(t)
    /\ toast' = "none" /\ declined' = "none"
    /\ UNCHANGED form
    /\ UNCHANGED <<view, opened, elemVars, schema, pendingChanges,
                   sessionActive, serverEdits, serverSession, syncFailed, linkVars>>

\* A catch block that gave up the session after a rejected call.
UndoRedoFailEndsSession(t) ==
  /\ error' = TRUE
  /\ sessionActive' = FALSE
  /\ tasks' = Finish(t)
  /\ toast' = "none" /\ declined' = "none"
  /\ UNCHANGED form
  /\ UNCHANGED <<view, opened, loading, saving, validationErrors, schema,
                 pendingChanges, canUndo, canRedo, serverEdits, serverSession, syncFailed,
                 linkVars>>

\* _handleUndo / _handleRedo: the call rejected.
UndoRedoFail(t) ==
  /\ error' = TRUE
  /\ tasks' = Finish(t)
  /\ toast' = "none" /\ declined' = "none"
  /\ UNCHANGED form
  /\ UNCHANGED <<view, opened, loading, saving, validationErrors, chanVars,
                 linkVars>>

\* _refreshSchemaValues: the Pending-Change Set after getFormSchema resolved.
RefreshedChanges(m) == NoChanges

\* _refreshSchemaValues: the Pending-Change Set after getFormSchema rejected
\* (the assignment after the await is skipped).
UnrefreshedChanges(m) == m

\* _refreshSchemaValues: getFormSchema resolved.
RefreshOk(t) ==
  \E s \in Schemas :
    /\ schema' = s
    /\ pendingChanges' = RefreshedChanges(pendingChanges)
    /\ syncFailed' = NoChanges
    /\ tasks' = Finish(t)
    /\ toast' = "none" /\ declined' = "none"
    /\ UNCHANGED form
    /\ UNCHANGED <<view, opened, elemVars, sessionActive, canUndo, canRedo,
                   serverEdits, serverSession, linkVars>>

\* _refreshSchemaValues: getFormSchema rejected.
RefreshFail(t) ==
  /\ error' = TRUE
  /\ pendingChanges' = UnrefreshedChanges(pendingChanges)
  /\ tasks' = Finish(t)
  /\ toast' = "none" /\ declined' = "none"
  /\ UNCHANGED form
  /\ UNCHANGED <<view, opened, loading, saving, validationErrors, schema,
                 sessionActive, canUndo, canRedo, serverEdits, serverSession, syncFailed,
                 linkVars>>

\* A handler that left the Pending-Change Set as it was.
KeptChanges(m) == m
\* _handleDiscard: the Pending-Change Set it leaves.
DiscardedChanges(m) == NoChanges

\* _handleDiscard, synchronous part; with a session, sessionDiscard is issued.
Discard ==
  /\ MainView /\ IsDirty(pendingChanges) /\ ~saving
  /\ pendingChanges' = DiscardedChanges(pendingChanges)
  /\ validationErrors' = {}
  /\ syncFailed' = NoChanges
  /\ IF sessionActive
     THEN /\ InFlight < MaxInFlight
          /\ tasks' = Spawn(Task("discard", "sessionDiscard", NoChanges))
     ELSE tasks' = tasks
  /\ toast' = "none" /\ declined' = "none"
  /\ UNCHANGED form
  /\ UNCHANGED <<view, opened, loading, saving, error, schema, sessionActive,
                 canUndo, canRedo, serverEdits, serverSession, linkVars>>

\* _handleDiscard: sessionDiscard resolved, sessionOpen is issued.
SessionDiscardOk(t) ==
  /\ canUndo' = FALSE
  /\ canRedo' = FALSE
  /\ serverEdits' = NoChanges
  /\ serverSession' = FALSE
  /\ tasks' = Advance(t, "sessionOpen")
  /\ toast' = "none" /\ declined' = "none"
  /\ UNCHANGED form
  /\ UNCHANGED <<view, opened, elemVars, schema, pendingChanges,
                 sessionActive, syncFailed, linkVars>>

\* A catch block that reported the failed discard in the error banner.
SessionDiscardReported(t) ==
  /\ error' = TRUE
  /\ tasks' = Finish(t)
  /\ toast' = "none" /\ declined' = "none"
  /\ UNCHANGED form
  /\ UNCHANGED <<view, opened, loading, saving, validationErrors, chanVars,
                 linkVars>>

\* _handleDiscard: sessionDiscard rejected; the catch block is empty.
SessionDiscardFail(t) ==
  /\ tasks' = Finish(t)
  /\ toast' = "none" /\ declined' = "none"
  /\ UNCHANGED form
  /\ UNCHANGED <<view, opened, elemVars, chanVars, linkVars>>

\* _handleDiscard: the sessionOpen of the reopen settled; nothing follows it.
ReopenSettled(t) ==
  \E ok \in BOOLEAN :
    /\ serverEdits' = IF ok THEN NoChanges ELSE serverEdits
    /\ serverSession' = IF ok THEN TRUE ELSE serverSession
    /\ tasks' = Finish(t)
    /\ toast' = "none" /\ declined' = "none"
    /\ UNCHANGED form
    /\ UNCHANGED <<view, opened, elemVars, schema, pendingChanges,
                   sessionActive, canUndo, canRedo, syncFailed, linkVars>>

\* A handler that staged every defined default of a writable parameter,
\* also one equal to current_value.
StageAllDefaults(ps, wr, def, s) ==
  [p \in ps |-> IF wr[p] /\ def[p] # None THEN def[p] ELSE None]

\* _handleResetDefaults: the Pending-Change Set built from a schema with
\* parameters ps, their writable flags wr, defaults def (None: undefined)
\* and current values s.
ResetChanges(ps, wr, def, s) ==
  [p \in ps |->
     IF wr[p] /\ def[p] # None /\ def[p] # s[p] THEN def[p] ELSE None]

\* _handleResetDefaults on the channel's schema.
DefaultChanges(s) == ResetChanges(Params, ParamWritable, ParamDefault, s)

\* _handleResetDefaults
ResetDefaults ==
  /\ MainView /\ ~saving
  /\ pendingChanges' = IF schema = NoSchema THEN pendingChanges
                       ELSE DefaultChanges(schema)
  /\ syncFailed' = IF schema = NoSchema THEN syncFailed ELSE NoChanges
  /\ toast' = "none" /\ declined' = "none"
  /\ UNCHANGED form
  /\ UNCHANGED <<view, opened, elemVars, tasks, schema, sessionActive,
                 canUndo, canRedo, serverEdits, serverSession, linkVars>>

\* A guard that let a dirty controller save again while it is saving.
SaveReturnsIfClean == ~IsDirty(pendingChanges)
\* _handleSave: the early return (not dirty, or already saving).
SaveReturns == ~IsDirty(pendingChanges) \/ saving

\* _handleSave invoked while its guard makes it return at once.
SaveNoop ==
  /\ MainView /\ SaveReturns
  /\ toast' = "none" /\ declined' = "save-guard"
  /\ UNCHANGED form
  /\ UNCHANGED <<view, opened, elemVars, tasks, chanVars, linkVars>>

\* _handleSave up to the confirmation request.  The guard is evaluated
\* here, before the dialog; _saving is set only after the dialog resolved.
Save ==
  /\ MainView /\ ~SaveReturns
  /\ InFlight < MaxInFlight
  /\ tasks' = Spawn(Task("save", "confirm", NoChanges))
  /\ toast' = "none" /\ declined' = "none"
  /\ UNCHANGED form
  /\ UNCHANGED <<view, opened, elemVars, chanVars, linkVars>>

\* A handler that sent no values on the direct write path either.
NoPayload(active, m) == NoChanges
\* The values a write request carries: session_save carries none (sessionSave
\* takes no values), put_paramset carries Object.fromEntries of the
\* Pending-Change Set.
SavePayload(active, m) == IF active THEN NoChanges ELSE m

\* _handleSave: the dialog resolved to true; the write call is issued.
SaveConfirm(t) ==
  /\ saving' = TRUE
  /\ validationErrors' = {}
  /\ tasks' = Become(t, Task("save",
                             IF sessionActive THEN "sessionSave"
                             ELSE "putParamset",
                             SavePayload(sessionActive, pendingChanges)))
  /\ toast' = "none" /\ declined' = "none"
  /\ UNCHANGED form
  /\ UNCHANGED <<view, opened, loading, error, chanVars, linkVars>>

\* A handler that went on to the write whatever the dialog answered.
SaveAnyway(t) == SaveConfirm(t)

\* _handleSave: the dialog resolved to false.
SaveDecline(t) ==
  /\ tasks' = Finish(t)
  /\ toast' = "none" /\ declined' = "save"
  /\ UNCHANGED form
  /\ UNCHANGED <<view, opened, elemVars, chanVars, linkVars>>

WriteTasks == Waiting("save", "sessionSave") \cup Waiting("save", "putParamset")

\* What a successful write writes to the device: session_save writes the
\* edits staged in the server session, put_paramset the values it carries.
ServerWrite(t) == IF t.pc = "sessionSave" THEN serverEdits ELSE t.arg

\* _handleSave: the write resolved with success = true; the success toast is
\* shown and _fetchSchema starts.
SaveSuccess(t) ==
  /\ IF t.pc = "sessionSave"
     THEN /\ sessionActive' = FALSE
          /\ serverEdits' = NoChanges
          /\ serverSession' = FALSE
     ELSE UNCHANGED <<sessionActive, serverEdits, serverSession>>
  /\ FetchSchemaStart
  /\ tasks' = Advance(t, "getFormSchema")
  /\ toast' = "save_success" /\ declined' = "none"
  /\ UNCHANGED form
  /\ UNCHANGED <<view, opened, saving, schema, linkVars>>

\* A handler that emptied the Pending-Change Set on a failed write.
DroppedChanges(m) == NoChanges
\* _handleSave: the Pending-Change Set after a write that resolved with
\* success = false, or that rejected.
UnsavedChanges(m) == m

\* _handleSave: the write resolved with success = false and validation_errors.
SaveInvalid(t, errs) ==
  /\ validationErrors' = errs
  /\ pendingChanges' = UnsavedChanges(pendingChanges)
  /\ saving' = FALSE
  /\ tasks' = Finish(t)
  /\ toast' = "validation_failed" /\ declined' = "none"
  /\ UNCHANGED form
  /\ UNCHANGED <<view, opened, loading, error, schema, sessionActive,
                 canUndo, canRedo, serverEdits, serverSession, syncFailed, linkVars>>

\* _handleSave: the write resolved with success = false and no
\* validation_errors; neither branch is taken.
SaveUnsuccessful(t) ==
  /\ saving' = FALSE
  /\ tasks' = Finish(t)
  /\ toast' = "none" /\ declined' = "none"
  /\ UNCHANGED form
  /\ UNCHANGED <<view, opened, loading, error, validationErrors, chanVars,
                 linkVars>>

\* A catch block that left _error as it was.
KeptError == error
\* _handleSave, catch: _error = String(err), a non-empty string.
RejectedError == TRUE

\* A handler without the finally block: a rejected write leaves _saving set.
SaveRejectStuck(t) ==
  /\ error' = RejectedError
  /\ pendingChanges' = UnsavedChanges(pendingChanges)
  /\ tasks' = Finish(t)
  /\ toast' = "save_failed" /\ declined' = "none"
  /\ UNCHANGED form
  /\ UNCHANGED <<view, opened, loading, saving, validationErrors, schema,
                 sessionActive, canUndo, canRedo, serverEdits, serverSession, syncFailed,
                 linkVars>>

\* _handleSave: the write rejected.
SaveReject(t) ==
  /\ error' = RejectedError
  /\ pendingChanges' = UnsavedChanges(pendingChanges)
  /\ saving' = FALSE
  /\ tasks' = Finish(t)
  /\ toast' = "save_failed" /\ declined' = "none"
  /\ UNCHANGED form
  /\ UNCHANGED <<view, opened, loading, validationErrors, schema,
                 sessionActive, canUndo, canRedo, serverEdits, serverSession, syncFailed,
                 linkVars>>

\* _handleBack up to its first await, or to the back event when it has none.
Back ==
  /\ MainView
  /\ IF IsDirty(pendingChanges)
     THEN /\ InFlight < MaxInFlight
          /\ tasks' = Spawn(Task("back", "confirm", NoChanges))
          /\ view' = view
     ELSE IF sessionActive
     THEN /\ InFlight < MaxInFlight
          /\ tasks' = Spawn(Task("back", "sessionDiscard", NoChanges))
          /\ view' = view
     ELSE /\ tasks' = tasks
          /\ view' = "device-detail"
  /\ toast' = "none" /\ declined' = "none"
  /\ UNCHANGED form
  /\ UNCHANGED <<opened, elemVars, chanVars, linkVars>>

\* A handler that went on to leave the view whatever the dialog answered.
BackAnyway(t) ==
  /\ IF sessionActive
     THEN /\ tasks' = Advance(t, "sessionDiscard")
          /\ view' = view
     ELSE /\ tasks' = Finish(t)
          /\ view' = "device-detail"
  /\ toast' = "none" /\ declined' = "back"
  /\ UNCHANGED form
  /\ UNCHANGED <<opened, elemVars, chanVars, linkVars>>

\* _handleBack: the dialog resolved to false.
BackDecline(t) ==
  /\ tasks' = Finish(t)
  /\ toast' = "none" /\ declined' = "back"
  /\ UNCHANGED form
  /\ UNCHANGED <<view, opened, elemVars, chanVars, linkVars>>

\* _handleBack: the dialog resolved to true.
BackConfirm(t) ==
  /\ IF sessionActive
     THEN /\ tasks' = Advance(t, "sessionDiscard")
          /\ view' = view
     ELSE /\ tasks' = Finish(t)
          /\ view' = "device-detail"
  /\ toast' = "none" /\ declined' = "none"
  /\ UNCHANGED form
  /\ UNCHANGED <<opened, elemVars, chanVars, linkVars>>

\* A handler that stayed in the view when sessionDiscard rejected.
BackUnlessDiscardFails(t) ==
  \E ok \in BOOLEAN :
    /\ sessionActive' = (sessionActive /\ ~ok)
    /\ serverEdits' = IF ok THEN NoChanges ELSE serverEdits
    /\ serverSession' = IF ok THEN FALSE ELSE serverSession
    /\ tasks' = Finish(t)
    /\ view' = IF ok THEN "device-detail" ELSE view
    /\ toast' = "none" /\ declined' = "none"
    /\ UNCHANGED form
    /\ UNCHANGED <<opened, elemVars, schema, pendingChanges, canUndo,
                   canRedo, syncFailed, linkVars>>

\* _handleBack: sessionDiscard settled; the back event is dispatched and the
\* router leaves the view.
BackDiscardSettled(t) ==
  \E ok \in BOOLEAN :
    /\ sessionActive' = FALSE
    /\ serverEdits' = IF ok THEN NoChanges ELSE serverEdits
    /\ serverSession' = IF ok THEN FALSE ELSE serverSession
    /\ tasks' = Finish(t)
    /\ view' = "device-detail"
    /\ toast' = "none" /\ declined' = "none"
    /\ UNCHANGED form
    /\ UNCHANGED <<opened, elemVars, schema, pendingChanges, canUndo,
                   canRedo, syncFailed, linkVars>>

ChannelNext ==
  \/ Open
  \/ \E t \in Channel(FetchTasks("getFormSchema")) : GetFormSchemaOk(t)
  \/ \E t \in Channel(FetchTasks("getFormSchema")) : GetFormSchemaFail(t)
  \/ \E t \in Channel(FetchTasks("sessionOpen")) : SessionOpenOk(t)
  \/ \E t \in Channel(FetchTasks("sessionOpen")) : SessionOpenFail(t)
  \/ \E p \in Params, v \in Values : SetValue(p, v)
  \/ \E t \in Channel(Waiting("set", "sessionSet")) : SessionSetOk(t)
  \/ \E t \in Channel(Waiting("set", "sessionSet")) : SessionSetFail(t)
  \/ \E h \in {"undo", "redo"} : UndoRedo(h)
  \/ \E t \in Channel(UndoTasks("sessionUndo")) : UndoRedoPerformed(t)
  \/ \E t \in Channel(UndoTasks("sessionUndo")) : UndoRedoNotPerformed(t)
  \/ \E t \in Channel(UndoTasks("sessionUndo")) : UndoRedoFail(t)
  \/ \E t \in Channel(UndoTasks("refresh")) : RefreshOk(t)
  \/ \E t \in Channel(UndoTasks("refresh")) : RefreshFail(t)
  \/ Discard
  \/ \E t \in Channel(Waiting("discard", "sessionDiscard")) :
       SessionDiscardOk(t)
  \/ \E t \in Channel(Waiting("discard", "sessionDiscard")) :
       SessionDiscardFail(t)
  \/ \E t \in Channel(Waiting("discard", "sessionOpen")) : ReopenSettled(t)
  \/ ResetDefaults
  \/ SaveNoop
  \/ Save
  \/ \E t \in Channel(Waiting("save", "confirm")) : SaveDecline(t)
  \/ \E t \in Channel(Waiting("save", "confirm")) : SaveConfirm(t)
  \/ \E t \in Channel(WriteTasks) : SaveSuccess(t)
  \/ \E t \in Channel(WriteTasks), errs \in ErrorSets \ {{}} :
       SaveInvalid(t, errs)
  \/ \E t \in Channel(WriteTasks) : SaveUnsuccessful(t)
  \/ \E t \in Channel(WriteTasks) : SaveReject(t)
  \/ Back
  \/ \E t \in Channel(Waiting("back", "confirm")) : BackDecline(t)
  \/ \E t \in Channel(Waiting("back", "confirm")) : BackConfirm(t)
  \/ \E t \in Channel(Waiting("back", "sessionDiscard")) : BackDiscardSettled(t)

----------------------------------------------------------------------------
\* HmLinkConfig (dual-endpoint Edit Session Controller)

\* render(): the controls exist unless the loading view or the error view
\* is shown.
LinkMainView ==
  /\ view = "link-config" /\ ~loading
  /\ ~(error /\ receiverSchema = NoReceiverSchema
             /\ senderSchema = NoSenderSchema)

\* _isDirty: either Map has an entry.
LinkIsDirty == IsDirty(receiverPendingChanges) \/ IsDirty(senderPendingChanges)

\* The two put_link_paramset calls of one _handleSave: the values each
\* carries (rv, sv) and where each stands (rs, ss): "none" not issued,
\* "pending" unanswered, "ok" / "unsuccessful" resolved with success true /
\* false.
NoWrites == [rv |-> NoReceiverChanges, sv |-> NoSenderChanges,
             rs |-> "none", ss |-> "none"]

\* _fetchSchemas up to its await.
LinkFetchStart ==
  /\ loading' = TRUE
  /\ error' = FALSE
  /\ receiverPendingChanges' = NoReceiverChanges
  /\ senderPendingChanges' = NoSenderChanges
  /\ validationErrors' = {}

\* updated(): the element got its entryId and the two addresses.
LinkOpen ==
  /\ view = "link-config" /\ ~opened
  /\ InFlight < MaxInFlight
  /\ opened' = TRUE
  /\ LinkFetchStart
  /\ tasks' = Spawn(Task("open", "getLinkFormSchema", NoWrites))
  /\ toast' = "none" /\ declined' = "none"
  /\ UNCHANGED form
  /\ UNCHANGED <<view, saving, receiverSchema, senderSchema, chanVars>>

LinkFetchTasks ==
  Waiting("open", "getLinkFormSchema") \cup Waiting("save", "getLinkFormSchema")

\* _fetchSchemas: Promise.all resolved.  The sender-direction request has
\* .catch(() => null), so its rejection gives a null sender schema.
LinkFetchOk(t) ==
  \E rs \in ReceiverSchemas, ss \in SenderSchemas \cup {NoSenderSchema} :
    /\ receiverSchema' = rs
    /\ senderSchema' = ss
    /\ loading' = FALSE
    /\ saving' = SavingAfter(t)
    /\ tasks' = Finish(t)
    /\ toast' = "none" /\ declined' = "none"
    /\ UNCHANGED form
    /\ UNCHANGED <<view, opened, error, validationErrors,
                   receiverPendingChanges, senderPendingChanges, chanVars>>

\* _fetchSchemas: the receiver-direction request or get_link_profiles
\* rejected.
LinkFetchFail(t) ==
  /\ error' = TRUE
  /\ loading' = FALSE
  /\ saving' = SavingAfter(t)
  /\ tasks' = Finish(t)
  /\ toast' = "none" /\ declined' = "none"
  /\ UNCHANGED form
  /\ UNCHANGED <<view, opened, validationErrors, linkVars, chanVars>>

\* _handleReceiverValueChanged: a control of the receiver form emitted
\* value-changed with the parameter's current_value.
SetReceiverValue(p, v) ==
  /\ LinkMainView /\ receiverSchema # NoReceiverSchema
  /\ receiverPendingChanges' =
       TrackChange(receiverPendingChanges, p, v, receiverSchema[p])
  /\ toast' = "none" /\ declined' = "none"
  /\ UNCHANGED form
  /\ UNCHANGED <<view, opened, elemVars, tasks, receiverSchema, senderSchema,
                 senderPendingChanges, chanVars>>

\* _handleSenderValueChanged
SetSenderValue(p, v) ==
  /\ LinkMainView /\ senderSchema # NoSenderSchema
  /\ senderPendingChanges' =
       TrackChange(senderPendingChanges, p, v, senderSchema[p])
  /\ toast' = "none" /\ declined' = "none"
  /\ UNCHANGED form
  /\ UNCHANGED <<view, opened, elemVars, tasks, receiverSchema, senderSchema,
                 receiverPendingChanges, chanVars>>

\* HmLinkConfig._handleDiscard (the button is disabled unless dirty and not
\* saving).
LinkDiscard ==
  /\ LinkMainView /\ LinkIsDirty /\ ~saving
  /\ receiverPendingChanges' = NoReceiverChanges
  /\ senderPendingChanges' = NoSenderChanges
  /\ validationErrors' = {}
  /\ toast' = "none" /\ declined' = "none"
  /\ UNCHANGED form
  /\ UNCHANGED <<view, opened, loading, saving, error, tasks, receiverSchema,
                 senderSchema, chanVars>>

\* HmLinkConfig._handleSave: the early return.
LinkSaveReturns == ~LinkIsDirty \/ saving

LinkSaveNoop ==
  /\ LinkMainView /\ LinkSaveReturns
  /\ toast' = "none" /\ declined' = "save-guard"
  /\ UNCHANGED form
  /\ UNCHANGED <<view, opened, elemVars, tasks, linkVars, chanVars>>

\* HmLinkConfig._handleSave up to the confirmation request.
LinkSave ==
  /\ LinkMainView /\ ~LinkSaveReturns
  /\ InFlight < MaxInFlight
  /\ tasks' = Spawn(Task("save", "confirm", NoWrites))
  /\ toast' = "none" /\ declined' = "none"
  /\ UNCHANGED form
  /\ UNCHANGED <<view, opened, elemVars, linkVars, chanVars>>

\* HmLinkConfig._handleSave: the dialog resolved to false.
LinkSaveDecline(t) ==
  /\ tasks' = Finish(t)
  /\ toast' = "none" /\ declined' = "save"
  /\ UNCHANGED form
  /\ UNCHANGED <<view, opened, elemVars, linkVars, chanVars>>

\* A handler that pushed a promise for both endpoints whatever they hold.
WritesForBoth(r, s) == [rv |-> r, sv |-> s, rs |-> "pending", ss |-> "pending"]
\* HmLinkConfig._handleSave: the promises pushed after the confirmation, one
\* per endpoint whose Map has an entry, each with Object.fromEntries of it.
LinkWrites(r, s) ==
  [rv |-> r, sv |-> s,
   rs |-> IF IsDirty(r) THEN "pending" ELSE "none",
   ss |-> IF IsDirty(s) THEN "pending" ELSE "none"]

\* HmLinkConfig._handleSave after `await Promise.all(promises)` resolved.
LinkSaveSucceeded(t) ==
  /\ LinkFetchStart
  /\ tasks' = Become(t, Task("save", "getLinkFormSchema", NoWrites))
  /\ toast' = "save_success" /\ declined' = "none"
  /\ UNCHANGED form
  /\ UNCHANGED <<view, opened, receiverSchema, senderSchema, chanVars>>

\* HmLinkConfig._handleSave: the dialog resolved to true.  With no promise
\* pushed (both Maps were emptied while the dialog was open) Promise.all([])
\* is already resolved and the handler runs on.
LinkSaveConfirm(t) ==
  LET w == LinkWrites(receiverPendingChanges, senderPendingChanges) IN
    IF w.rs = "none" /\ w.ss = "none"
    THEN /\ saving' = TRUE
         /\ LinkSaveSucceeded(t)
    ELSE /\ saving' = TRUE
         /\ validationErrors' = {}
         /\ tasks' = Become(t, Task("save", "putLinkParamset", w))
         /\ toast' = "none" /\ declined' = "none"
         /\ UNCHANGED form
         /\ UNCHANGED <<view, opened, loading, error, linkVars, chanVars>>

LinkWriteTasks == Waiting("save", "putLinkParamset")

Endpoints == {"receiver", "sender"}
WriteStatus(w, ep) == IF ep = "receiver" THEN w.rs ELSE w.ss
WithStatus(w, ep, st) ==
  IF ep = "receiver" THEN [w EXCEPT !.rs = st] ELSE [w EXCEPT !.ss = st]
\* The response's success field is never read by HmLinkConfig._handleSave.
Resolved(success) == IF success THEN "ok" ELSE "unsuccessful"

\* HmLinkConfig._handleSave: one put_link_paramset resolved.  Promise.all
\* resolves with the last of them.
LinkWriteResolve(t, ep, success) ==
  /\ WriteStatus(t.arg, ep) = "pending"
  /\ LET w == WithStatus(t.arg, ep, Resolved(success)) IN
       IF w.rs = "pending" \/ w.ss = "pending"
       THEN /\ tasks' = Become(t, Task("save", "putLinkParamset", w))
            /\ toast' = "none" /\ declined' = "none"
            /\ UNCHANGED form
            /\ UNCHANGED <<view, opened, elemVars, linkVars, chanVars>>
       ELSE /\ saving' = saving
            /\ LinkSaveSucceeded(t)

\* HmLinkConfig._handleSave: one put_link_paramset rejected.  Promise.all
\* rejects at once; catch and finally run, and the answer to the other call
\* is no longer awaited.
LinkWriteReject(t, ep) ==
  /\ WriteStatus(t.arg, ep) = "pending"
  /\ error' = TRUE
  /\ saving' = FALSE
  /\ tasks' = Finish(t)
  /\ toast' = "save_failed" /\ declined' = "none"
  /\ UNCHANGED form
  /\ UNCHANGED <<view, opened, loading, validationErrors, linkVars, chanVars>>

\* HmLinkConfig._handleBack up to the dialog, or to the back event.
LinkBack ==
  /\ LinkMainView
  /\ IF LinkIsDirty
     THEN /\ InFlight < MaxInFlight
          /\ tasks' = Spawn(Task("back", "confirm", NoWrites))
          /\ view' = view
     ELSE /\ tasks' = tasks
          /\ view' = "device-links"
  /\ toast' = "none" /\ declined' = "none"
  /\ UNCHANGED form
  /\ UNCHANGED <<opened, elemVars, linkVars, chanVars>>

LinkBackDecline(t) ==
  /\ tasks' = Finish(t)
  /\ toast' = "none" /\ declined' = "back"
  /\ UNCHANGED form
  /\ UNCHANGED <<view, opened, elemVars, linkVars, chanVars>>

LinkBackConfirm(t) ==
  /\ tasks' = Finish(t)
  /\ view' = "device-links"
  /\ toast' = "none" /\ declined' = "none"
  /\ UNCHANGED form
  /\ UNCHANGED <<opened, elemVars, linkVars, chanVars>>

LinkNext ==
  \/ LinkOpen
  \/ \E t \in Link(LinkFetchTasks) : LinkFetchOk(t)
  \/ \E t \in Link(LinkFetchTasks) : LinkFetchFail(t)
  \/ \E p \in ReceiverParams, v \in Values : SetReceiverValue(p, v)
  \/ \E p \in SenderParams, v \in Values : SetSenderValue(p, v)
  \/ LinkDiscard
  \/ LinkSaveNoop
  \/ LinkSave
  \/ \E t \in Link(Waiting("save", "confirm")) : LinkSaveDecline(t)
  \/ \E t \in Link(Waiting("save", "confirm")) : LinkSaveConfirm(t)
  \/ \E t \in Link(LinkWriteTasks), ep \in Endpoints, success \in BOOLEAN :
       LinkWriteResolve(t, ep, success)
  \/ \E t \in Link(LinkWriteTasks), ep \in Endpoints : LinkWriteReject(t, ep)
  \/ LinkBack
  \/ \E t \in Link(Waiting("back", "confirm")) : LinkBackDecline(t)
  \/ \E t \in Link(Waiting("back", "confirm")) : LinkBackConfirm(t)

----------------------------------------------------------------------------
Next == ChannelNext \/ LinkNext

Spec == Init /\ [][Next]_vars

\* The requests _loading and _saving wait for settle, each with one of its
\* outcomes, and the Lit lifecycle runs updated(): the fetch and the write
\* calls of the channel controller.  The other calls and the dialogs may or
\* may not settle.
ChannelSettles ==
  /\ WF_vars(Open)
  /\ WF_vars(\E t \in Channel(FetchTasks("getFormSchema")) :
               GetFormSchemaOk(t) \/ GetFormSchemaFail(t))
  /\ WF_vars(\E t \in Channel(FetchTasks("sessionOpen")) :
               SessionOpenOk(t) \/ SessionOpenFail(t))
  /\ WF_vars(\E t \in Channel(WriteTasks) :
               \/ SaveSuccess(t)
               \/ \E errs \in ErrorSets \ {{}} : SaveInvalid(t, errs)
               \/ SaveUnsuccessful(t)
               \/ SaveReject(t))

\* The fetch and the write calls of the link controller.
LinkSettles ==
  /\ WF_vars(LinkOpen)
  /\ WF_vars(\E t \in Link(LinkFetchTasks) :
               LinkFetchOk(t) \/ LinkFetchFail(t))
  /\ WF_vars(\E t \in Link(LinkWriteTasks), ep \in Endpoints :
               \/ \E success \in BOOLEAN : LinkWriteResolve(t, ep, success)
               \/ LinkWriteReject(t, ep))

\* The two controllers when these requests settle.
LiveSpec == Spec /\ ChannelSettles /\ LinkSettles

----------------------------------------------------------------------------
\* The change-tracking functions on a form of several parameters.  form
\* holds the loaded schema (cur: current_value, def: default, None when
\* undefined, wr: writable), the Pending-Change Set (pending), and for the
\* handler that ran last its name (last) and the set it started from
\* (before).

\* The fields of the two elements, which the form's handlers do not touch.
ctlVars == <<view, opened, loading, saving, error, validationErrors, tasks,
             toast, declined, schema, pendingChanges, sessionActive, canUndo,
             canRedo, serverEdits, serverSession, syncFailed, receiverSchema, senderSchema,
             receiverPendingChanges, senderPendingChanges>>

\* The schemas a form can be loaded with; the Pending-Change Set is empty
\* after _fetchSchema.
FormInit ==
  /\ view = "channel-config"
  /\ ElementInit
  /\ \E cur \in [FormParams -> FormValues],
        def \in [FormParams -> FormValues \cup {None}],
        wr \in [FormParams -> BOOLEAN] :
       form = [cur |-> cur, def |-> def, wr |-> wr,
               pending |-> NoFormChanges, before |-> NoFormChanges,
               last |-> "none"]

\* The form after a handler named op has left the Pending-Change Set m.
FormAfter(op, m) ==
  [form EXCEPT !.pending = m, !.before = form.pending, !.last = op]

\* _handleValueChanged, local tracking, for the value-changed event of a
\* control of parameter p (controls of read-only parameters are disabled).
FormSetValue(p, v) ==
  /\ form.wr[p]
  /\ form' = FormAfter("set", TrackChange(form.pending, p, v, form.cur[p]))
  /\ UNCHANGED ctlVars

\* The names under which last records _handleResetDefaults: run first, or
\* run again directly after itself.
ResetNames == {"reset", "reset-again"}

\* A handler that took back the defaults it finds staged and staged the
\* others.
FormToggleDefaults ==
  /\ form' = FormAfter(IF form.last \in ResetNames THEN "reset-again"
                       ELSE "reset",
                       [p \in FormParams |->
                          IF form.pending[p] # None THEN None
                          ELSE ResetChanges(FormParams, form.wr, form.def,
                                            form.cur)[p]])
  /\ UNCHANGED ctlVars
\* _handleResetDefaults on the form's schema.
FormResetDefaults ==
  /\ form' = FormAfter(IF form.last \in ResetNames THEN "reset-again"
                       ELSE "reset",
                       ResetChanges(FormParams, form.wr, form.def, form.cur))
  /\ UNCHANGED ctlVars

\* _handleDiscard, the Pending-Change Set.
FormDiscard ==
  /\ IsDirty(form.pending)
  /\ form' = FormAfter("discard", NoFormChanges)
  /\ UNCHANGED ctlVars

\* A profile's fixed_params or default_values: a value per parameter the
\* profile names, None for the others.  Two values are enough for a profile
\* to meet, and to miss, each current_value.
ProfileValues == [FormParams -> {"0", "1", None}]

\* _handleProfileChange: the Map built from the profile's fixed_params fx
\* and default_values dv, set in this order, each only where it differs
\* from current_value.
ProfileChanges(cur, fx, dv) ==
  [p \in FormParams |->
     IF dv[p] # None /\ dv[p] # cur[p] THEN dv[p]
     ELSE IF fx[p] # None /\ fx[p] # cur[p] THEN fx[p]
     ELSE None]

\* HmLinkConfig._handleProfileChange for a profile with an id other than 0
\* that _profiles holds, the form being the receiver form: the new Map
\* replaces _receiverPendingChanges.
FormProfileChange(fx, dv) ==
  /\ form' = FormAfter("profile", ProfileChanges(form.cur, fx, dv))
  /\ UNCHANGED ctlVars

\* The literal true a button widget emits; a button parameter's
\* current_value is this value or another one.
ButtonValue == "1"

\* The button widget of hm-form-parameter clicked for the writable
\* parameter p: _emitChange(true), re-dispatched by hm-config-form and
\* tracked by _handleValueChanged against parameter.current_value.
FormButtonClick(p) ==
  /\ form.wr[p]
  /\ form' = FormAfter("button",
                       TrackChange(form.pending, p, ButtonValue, form.cur[p]))
  /\ UNCHANGED ctlVars

FormNext ==
  \/ \E p \in FormParams, v \in FormValues : FormSetValue(p, v)
  \/ FormResetDefaults
  \/ FormDiscard
  \/ \E fx \in ProfileValues, dv \in ProfileValues : FormProfileChange(fx, dv)
  \/ \E p \in FormParams : FormButtonClick(p)

FormSpec == FormInit /\ [][FormNext]_vars

----------------------------------------------------------------------------
\* Properties

\* The write requests a step has issued.
WriteCalls == {"sessionSave", "putParamset", "putLinkParamset"}
NoWriteIssued == Issued \cap WriteCalls = {}

\* C1: in every reachable state of the single-channel controller, a
\* parameter with an entry in the Pending-Change Set has a pending value
\* that differs from its current_value in the loaded schema.
C1_PendingDiffersFromCurrent ==
  \A p \in Params :
    pendingChanges[p] # None => pendingChanges[p] # schema[p]

\* C2: when a confirmed Save is answered with success = false and non-empty
\* validation_errors, the Pending-Change Set is what it was before the answer,
\* validation_errors holds the answer's errors, the validation-failed
\* notification is shown and saving is false.
C2_ValidationFailureKeepsChanges ==
  [][\A t \in Channel(WriteTasks), errs \in ErrorSets \ {{}} :
       SaveInvalid(t, errs) =>
         /\ pendingChanges' = pendingChanges
         /\ validationErrors' = errs
         /\ toast' = "validation_failed"
         /\ saving' = FALSE]_vars

C2_Witness ==
  /\ view = "channel-config"
  /\ toast = "validation_failed"
  /\ IsDirty(pendingChanges)
  /\ validationErrors # {}
  /\ ~saving

\* The step that ends a _handleSave whose write the server reported as
\* successful: _fetchSchema returns and the finally block runs.
SuccessfulSaveCompletes ==
  \/ \E t \in Channel(Waiting("save", "getFormSchema")) : GetFormSchemaFail(t)
  \/ \E t \in Channel(Waiting("save", "sessionOpen")) :
       SessionOpenOk(t) \/ SessionOpenFail(t)

\* C3: when a Save the server reported as successful completes, the
\* Pending-Change Set is empty; and with an empty set a Save issues no
\* confirmation request and no network call.
C3_SavedThenClean ==
  [][/\ SuccessfulSaveCompletes => ~IsDirty(pendingChanges')
     /\ (~IsDirty(pendingChanges) /\ (Save \/ SaveNoop)) => tasks' = tasks]_vars

\* The step that ends an undo or redo the server has performed:
\* _refreshSchemaValues returns, with either outcome of its getFormSchema.
PerformedUndoRedoCompletes ==
  \E t \in Channel(UndoTasks("refresh")) : RefreshOk(t) \/ RefreshFail(t)

\* C4: when an Undo or Redo the server has performed completes, the
\* Pending-Change Set is empty, whatever the outcome of the schema re-fetch.
C4_UndoRedoClearsChanges ==
  [][PerformedUndoRedoCompletes => ~IsDirty(pendingChanges')]_vars

\* C5: immediately after Discard the Pending-Change Set is empty,
\* validation_errors is empty and the effective value of every parameter is
\* its current_value.
C5_DiscardRestoresCurrent ==
  [][Discard =>
       /\ ~IsDirty(pendingChanges')
       /\ validationErrors' = {}
       /\ \A p \in Params :
            GetEffectiveValue(pendingChanges', schema', p) = schema'[p]]_vars

C5_Witness ==
  /\ Waiting("discard", "sessionDiscard") # {}
  /\ schema # NoSchema
  /\ ~IsDirty(pendingChanges)
  /\ \A p \in Params : GetEffectiveValue(pendingChanges, schema, p) = schema[p]

\* C6: when the Save confirmation is declined, no write call is issued, the
\* Pending-Change Sets and validation_errors are unchanged and saving is not
\* changed (it stays false when it was false), in both controllers.
C6_DeclinedSaveChangesNothing ==
  [][/\ \A t \in Channel(Waiting("save", "confirm")) :
          SaveDecline(t) =>
            /\ NoWriteIssued
            /\ UNCHANGED <<pendingChanges, validationErrors, saving>>
     /\ \A t \in Link(Waiting("save", "confirm")) :
          LinkSaveDecline(t) =>
            /\ NoWriteIssued
            /\ UNCHANGED <<receiverPendingChanges, senderPendingChanges,
                           validationErrors, saving>>]_vars

C6_Witness ==
  /\ declined = "save"
  /\ ~saving
  /\ IsDirty(pendingChanges) \/ LinkIsDirty
  /\ Waiting("save", "sessionSave") = {}
  /\ Waiting("save", "putParamset") = {}
  /\ Waiting("save", "putLinkParamset") = {}

\* C7: when the write call of a confirmed Save rejects, the error banner is
\* set, the save-failed notification is shown, the Pending-Change Set is
\* unchanged and saving is false.
C7_RejectedWriteKeepsChanges ==
  [][\A t \in Channel(WriteTasks) :
       SaveReject(t) =>
         /\ error'
         /\ toast' = "save_failed"
         /\ pendingChanges' = pendingChanges
         /\ saving' = FALSE]_vars

C7_Witness ==
  /\ view = "channel-config"
  /\ toast = "save_failed"
  /\ error
  /\ IsDirty(pendingChanges)
  /\ ~saving

\* A write of a link Save that did not succeed: it rejected, or it resolved
\* with success = false.
Failed(st) == st \in {"rejected", "unsuccessful"}

\* The two writes of the Save of task t once endpoint ep got outcome st, when
\* that ends the waiting with exactly one write failed and the other
\* succeeded.
OneOfTwoFailed(t, ep, st) ==
  LET w == WithStatus(t.arg, ep, st) IN
    /\ t.arg.rs # "none" /\ t.arg.ss # "none"
    /\ WriteStatus(t.arg, ep) = "pending"
    /\ \E f \in Endpoints :
         /\ Failed(WriteStatus(w, f))
         /\ \A g \in Endpoints \ {f} : WriteStatus(w, g) = "ok"

\* The Pending-Change Set of an endpoint.
PendingOf(ep) ==
  IF ep = "receiver" THEN receiverPendingChanges ELSE senderPendingChanges

\* What C8 asks of a step: the failure is reported and the entries of every
\* endpoint whose write did not succeed are kept.
FailureReported(t, ep, st) ==
  LET w == WithStatus(t.arg, ep, st) IN
    /\ error'
    /\ toast' = "save_failed"
    /\ \A f \in Endpoints :
         Failed(WriteStatus(w, f)) => PendingOf(f)' = PendingOf(f)

\* C8: in the link controller, when exactly one of the two writes of a Save
\* fails, the failure is reported (error banner, save-failed notification)
\* and no pending entry whose write did not succeed is dropped.
C8_PartialFailureReported ==
  [][\A t \in Link(LinkWriteTasks), ep \in Endpoints :
       /\ (LinkWriteReject(t, ep) /\ OneOfTwoFailed(t, ep, "rejected"))
            => FailureReported(t, ep, "rejected")
       /\ \A success \in BOOLEAN :
            (/\ LinkWriteResolve(t, ep, success)
             /\ OneOfTwoFailed(t, ep, Resolved(success)))
              => FailureReported(t, ep, Resolved(success))]_vars

\* The put_link_paramset calls a step has issued, as the tasks awaiting them.
IssuedLinkWrites ==
  {u \in BagToSet(tasks') :
     /\ u.pc = "putLinkParamset"
     /\ CopiesIn(u, tasks') > CopiesIn(u, tasks)}

\* C9: in the link controller a confirmed Save issues a write for an endpoint
\* if and only if that endpoint's Pending-Change Set is non-empty, carrying
\* that set; with receiver {X: 1} and an empty sender set, one write is
\* issued, for the receiver.
C9_WritePerDirtyEndpoint ==
  [][\A t \in Link(Waiting("save", "confirm")) :
       LinkSaveConfirm(t) =>
         /\ IsDirty(receiverPendingChanges) <=>
              \E u \in IssuedLinkWrites :
                u.arg.rs = "pending" /\ u.arg.rv = receiverPendingChanges
         /\ IsDirty(senderPendingChanges) <=>
              \E u \in IssuedLinkWrites :
                u.arg.ss = "pending" /\ u.arg.sv = senderPendingChanges
         /\ \A u \in IssuedLinkWrites :
              /\ u.arg.rs = "pending" => IsDirty(receiverPendingChanges)
              /\ u.arg.ss = "pending" => IsDirty(senderPendingChanges)
         /\ (/\ receiverPendingChanges["X"] = "1"
             /\ ~IsDirty(senderPendingChanges))
              => \E u \in IssuedLinkWrites :
                   u.arg.rs = "pending" /\ u.arg.ss = "none"]_vars

C9_Witness ==
  /\ view = "link-config"
  /\ saving
  /\ receiverPendingChanges["X"] = "1"
  /\ ~IsDirty(senderPendingChanges)
  /\ \E u \in LinkWriteTasks :
       /\ u.arg.rs = "pending" /\ u.arg.ss = "none"
       /\ u.arg.rv = receiverPendingChanges

\* C10: an edit whose session_set rejected, still in the Pending-Change Set
\* and not edited or staged again since, is part of what a successful Save
\* made with the session active writes to the server.
C10_FailedSyncStillWritten ==
  [][\A t \in Channel(Waiting("save", "sessionSave")) :
       SaveSuccess(t) =>
         \A p \in Params :
           (/\ syncFailed[p] # None
            /\ pendingChanges[p] = syncFailed[p]
            /\ Waiting("set", "sessionSet") = {})
             => ServerWrite(t)[p] = syncFailed[p]]_vars

\* C11: when session_open fails after the schema fetch of Open, the session
\* is inactive and the form is shown; and with the session inactive SetValue
\* only tracks the edit locally and issues no call, Undo and Redo issue no
\* call, and a confirmed Save issues put_paramset with the entries of the
\* Pending-Change Set and no session_save.
C11_SessionInactiveMode ==
  [][/\ \A t \in Channel(Waiting("open", "sessionOpen")) :
          SessionOpenFail(t) => ~sessionActive' /\ FormShown'
     /\ ~sessionActive =>
          /\ \A p \in Params, v \in Values :
               SetValue(p, v) =>
                 /\ Issued = {}
                 /\ pendingChanges' =
                      TrackChange(pendingChanges, p, v, schema[p])
          /\ \A h \in {"undo", "redo"} : UndoRedo(h) => Issued = {}
          /\ \A t \in Channel(Waiting("save", "confirm")) :
               SaveConfirm(t) =>
                 /\ Issued = {"putParamset"}
                 /\ \A u \in Waiting("save", "putParamset")' :
                      CopiesIn(u, tasks') > CopiesIn(u, tasks)
                        => u.arg = pendingChanges]_vars

C11_Witness ==
  /\ view = "channel-config"
  /\ error /\ ~sessionActive /\ schema # NoSchema
  /\ IsDirty(pendingChanges)
  /\ \E u \in Waiting("save", "putParamset") : u.arg = pendingChanges
  /\ Waiting("save", "sessionSave") = {}
  /\ Waiting("set", "sessionSet") = {}

\* C12: SetValue updates the Pending-Change Set in the step that issues
\* session_set, before any answer; and when that session_set fails, the
\* Pending-Change Set, can_undo, can_redo, validation_errors and the error
\* banner are left as they were.
C12_FailedSyncNotRolledBack ==
  [][/\ \A p \in Params, v \in Values :
          SetValue(p, v) =>
            pendingChanges' = TrackChange(pendingChanges, p, v, schema[p])
     /\ \A t \in Channel(Waiting("set", "sessionSet")) :
          SessionSetFail(t) =>
            UNCHANGED <<pendingChanges, canUndo, canRedo, validationErrors,
                        error>>]_vars

C12_Witness ==
  /\ view = "channel-config"
  /\ \E p \in Params : syncFailed[p] # None /\ pendingChanges[p] = syncFailed[p]
  /\ Waiting("set", "sessionSet") = {}
  /\ ~error

----------------------------------------------------------------------------
\* Properties of the change-tracking functions (FormSpec)

\* A parameter ResetToDefaults has nothing to stage for: it has no default,
\* is at its default already, or is read-only.
NotResettable(p) ==
  form.def[p] = None \/ form.def[p] = form.cur[p] \/ ~form.wr[p]

\* C13: ResetToDefaults leaves untouched every parameter without a default,
\* at its default or read-only: a Pending-Change Set entry of such a
\* parameter is present with the same value afterwards.
C13_ResetKeepsOtherEntries ==
  [][FormResetDefaults =>
       \A p \in FormParams :
         (NotResettable(p) /\ form.pending[p] # None)
           => form'.pending[p] = form.pending[p]]_vars

\* C14: ResetToDefaults applied to an empty Pending-Change Set yields the
\* mapping p -> default over exactly the writable parameters whose default
\* is defined and differs from current_value, and issues no call; for A
\* (current 1, default 1) and B (current 2, default 0), both writable, the
\* result is {B: 0}.
C14_ResetStagesDefaults ==
  [][(FormResetDefaults /\ ~IsDirty(form.pending)) =>
       /\ \A p \in FormParams :
            /\ form'.pending[p] # None <=>
                 /\ form.wr[p]
                 /\ form.def[p] # None
                 /\ form.def[p] # form.cur[p]
            /\ form'.pending[p] # None => form'.pending[p] = form.def[p]
       /\ (/\ form.cur = [p \in FormParams |-> IF p = "A" THEN "1" ELSE "2"]
           /\ form.def = [p \in FormParams |-> IF p = "A" THEN "1" ELSE "0"]
           /\ \A p \in FormParams : form.wr[p])
            => form'.pending =
                 [p \in FormParams |-> IF p = "B" THEN "0" ELSE None]
       /\ Issued = {}]_vars

C14_Witness ==
  /\ form.last = "reset"
  /\ ~IsDirty(form.before)
  /\ form.cur = [p \in FormParams |-> IF p = "A" THEN "1" ELSE "2"]
  /\ form.def = [p \in FormParams |-> IF p = "A" THEN "1" ELSE "0"]
  /\ \A p \in FormParams : form.wr[p]
  /\ form.pending = [p \in FormParams |-> IF p = "B" THEN "0" ELSE None]

\* C15: ResetToDefaults is idempotent: run again directly after itself, from
\* whatever Pending-Change Set the first run started, it leaves the
\* Pending-Change Set as the first run left it.
C15_ResetIdempotent ==
  [][(form.last \in ResetNames /\ FormResetDefaults)
       => form'.pending = form.pending]_vars

C15_Witness ==
  /\ form.last = "reset-again"
  /\ IsDirty(form.pending)
  /\ form.before = form.pending

\* C16: SetValue(p, v) with v different from current_value puts the entry
\* p -> v in the Pending-Change Set, SetValue(p, current_value) removes the
\* entry of p, and both leave every other entry unchanged; from the empty
\* set the first gives {p: v} (dirty), and the second, applied to {p: v},
\* gives the empty set (not dirty).
C16_SetValueTracksDifference ==
  [][\A p \in FormParams, v \in FormValues :
       FormSetValue(p, v) =>
         /\ v # form.cur[p] => form'.pending[p] = v
         /\ v = form.cur[p] => form'.pending[p] = None
         /\ \A q \in FormParams \ {p} : form'.pending[q] = form.pending[q]
         /\ (v # form.cur[p] /\ ~IsDirty(form.pending))
              => /\ form'.pending = [NoFormChanges EXCEPT ![p] = v]
                 /\ IsDirty(form'.pending)
         /\ (/\ v = form.cur[p]
             /\ \E w \in FormValues :
                  form.pending = [NoFormChanges EXCEPT ![p] = w])
              => /\ form'.pending = NoFormChanges
                 /\ ~IsDirty(form'.pending)]_vars

C16_Witness ==
  /\ form.last = "set"
  /\ form.cur["A"] = "1"
  /\ form.before = [NoFormChanges EXCEPT !["A"] = "0"]
  /\ form.pending = NoFormChanges

\* The Pending-Change Set after one SetValue(p, tgt[p]) per parameter that
\* tgt names, applied to the set m.
SetValues(m, cur, tgt) ==
  [p \in FormParams |->
     IF tgt[p] = None THEN m[p]
     ELSE TrackChange(m, p, tgt[p], cur[p])[p]]

\* C17: selecting a named profile changes the receiver Pending-Change Set as
\* the individual SetValue calls for the profile's fixed and then its default
\* values would: entries of other parameters are preserved, and every
\* resulting entry differs from current_value.
C17_ProfileAsSetValues ==
  [][\A fx \in ProfileValues, dv \in ProfileValues :
       FormProfileChange(fx, dv) =>
         /\ form'.pending =
              SetValues(SetValues(form.pending, form.cur, fx), form.cur, dv)
         /\ \A p \in FormParams :
              (fx[p] = None /\ dv[p] = None)
                => form'.pending[p] = form.pending[p]
         /\ \A p \in FormParams :
              form'.pending[p] # None => form'.pending[p] # form.cur[p]]_vars

\* C18: Undo (Redo) issues a server call only when a session is active and
\* can_undo (can_redo) is true; invoked without an active session it issues
\* no call and changes no field of the controller.  With the flag false the
\* button is disabled and the handler is not invoked at all.
C18_UndoRedoNeedsSessionAndFlag ==
  [][\A h \in {"undo", "redo"} :
       UndoRedo(h) =>
         /\ Issued # {} => sessionActive /\ UndoEnabled(h)
         /\ ~sessionActive =>
              /\ Issued = {}
              /\ tasks' = tasks
              /\ UNCHANGED <<view, elemVars, chanVars>>]_vars

\* Undo or Redo was invoked while no session was active.
C18_Witness == declined \in {"undo", "redo"} /\ ~sessionActive /\ view = "channel-config"

\* C19: declining the unsaved-changes confirmation on navigate-back cancels
\* the navigation: the view is not left (no back event), no session_discard
\* is issued, and the Pending-Change Set, sessionActive and the schema stay
\* as they are; likewise for the two sets and schemas of a link.
C19_DeclinedBackChangesNothing ==
  [][/\ \A t \in Channel(Waiting("back", "confirm")) :
          BackDecline(t) =>
            /\ view' = view
            /\ "sessionDiscard" \notin Issued
            /\ UNCHANGED <<pendingChanges, sessionActive, schema>>
     /\ \A t \in Link(Waiting("back", "confirm")) :
          LinkBackDecline(t) =>
            /\ view' = view
            /\ Issued = {}
            /\ UNCHANGED linkVars]_vars

\* The confirmation of a navigate-back with unsaved changes was declined.
C19_Witness ==
  /\ declined = "back"
  /\ view = "channel-config"
  /\ IsDirty(pendingChanges)

\* C20: a navigate-back that is confirmed, or made with an empty
\* Pending-Change Set, issues session_discard exactly when a session is
\* active; without a session the back event is emitted at once, with one it
\* is emitted by the step on which session_discard settles, resolved or
\* rejected, and that step ends the handler; after the back event
\* sessionActive is false.
C20_BackDiscardsThenLeaves ==
  [][/\ (Back /\ ~IsDirty(pendingChanges)) =>
          /\ "sessionDiscard" \in Issued <=> sessionActive
          /\ view' = IF sessionActive THEN view ELSE "device-detail"
     /\ \A t \in Channel(Waiting("back", "confirm")) :
          BackConfirm(t) =>
            /\ "sessionDiscard" \in Issued <=> sessionActive
            /\ view' = IF sessionActive THEN view ELSE "device-detail"
     /\ \A t \in Channel(Waiting("back", "sessionDiscard")) :
          BackDiscardSettled(t) =>
            /\ view' = "device-detail"
            /\ CopiesIn(t, tasks') < CopiesIn(t, tasks)
     /\ (view = "channel-config" /\ view' = "device-detail") =>
          ~sessionActive']_vars

\* The view was left by a navigate-back confirmed with unsaved changes.
C20_Witness ==
  /\ view = "device-detail"
  /\ ~sessionActive
  /\ IsDirty(pendingChanges)

\* C21: Discard clears the Pending-Change Set and validation_errors at once;
\* it issues session_discard exactly when a session is active and, once that
\* resolved, session_open; a rejection of either call sets no error banner,
\* issues nothing further and leaves every field of the controller as it is.
C21_DiscardSwallowsFailures ==
  [][/\ Discard =>
          /\ pendingChanges' = NoChanges
          /\ validationErrors' = {}
          /\ ("sessionDiscard" \in Issued) <=> sessionActive
          /\ UNCHANGED <<error, loading, schema>>
     /\ \A t \in Channel(Waiting("discard", "sessionDiscard")) :
          /\ SessionDiscardOk(t) =>
               Issued = {"sessionOpen"} /\ UNCHANGED <<error, loading, schema>>
          /\ SessionDiscardFail(t) =>
               /\ Issued = {}
               /\ UNCHANGED <<view, elemVars, schema, pendingChanges,
                              sessionActive, canUndo, canRedo>>
     /\ \A t \in Channel(Waiting("discard", "sessionOpen")) :
          ReopenSettled(t) =>
            /\ Issued = {}
            /\ UNCHANGED <<view, elemVars, schema, pendingChanges,
                           sessionActive, canUndo, canRedo>>]_vars

\* Discard has cleared the set, session_discard resolved and session_open
\* is awaited; the form is shown without an error banner.
C21_Witness ==
  /\ Channel(Waiting("discard", "sessionOpen")) # {}
  /\ pendingChanges = NoChanges
  /\ validationErrors = {}
  /\ FormShown /\ ~error

\* C22: activating an action button stages the literal true for its
\* parameter in the Pending-Change Set, whatever the parameter's
\* current_value is.
C22_ButtonStagesTrue ==
  [][\A p \in FormParams :
       FormButtonClick(p) => form'.pending[p] = ButtonValue]_vars

\* C23: Save invoked with an empty Pending-Change Set, or while saving is
\* true, requests no confirmation, issues no call and changes no field of
\* the controller; a Save that does request the confirmation starts from a
\* dirty controller that is not saving.
C23_SaveGuard ==
  [][/\ SaveNoop =>
          /\ Issued = {} /\ tasks' = tasks
          /\ UNCHANGED <<view, elemVars, chanVars>>
     /\ Save => IsDirty(pendingChanges) /\ ~saving
     /\ LinkSaveNoop =>
          /\ Issued = {} /\ tasks' = tasks
          /\ UNCHANGED <<view, elemVars, linkVars>>
     /\ LinkSave => LinkIsDirty /\ ~saving]_vars

\* Save was invoked with unsaved changes while a save was under way, and
\* returned at its guard.
C23_Witness ==
  /\ declined = "save-guard"
  /\ view = "channel-config"
  /\ IsDirty(pendingChanges)
  /\ saving

\* C24: the step on which the write call of a confirmed Save completes shows
\* an outcome: the success notification, or the validation-failed
\* notification with validation_errors populated, or the save-failed
\* notification with the error banner.
C24_SaveEndsVisibly ==
  [][\A t \in Channel(WriteTasks) :
       CopiesIn(t, tasks') < CopiesIn(t, tasks) =>
         \/ toast' = "save_success"
         \/ toast' = "validation_failed" /\ validationErrors' # {}
         \/ toast' = "save_failed" /\ error']_vars

\* The router shows one of the two controllers.
Rendered == view \in {"channel-config", "link-config"}

\* C25: when every remote call and every confirmation settles, saving does
\* not stay true and loading does not stay true, whatever the outcomes of
\* the calls, for as long as the controller is the rendered view.
C25_SavingAndLoadingEnd ==
  /\ (Rendered /\ saving) ~> (~Rendered \/ ~saving)
  /\ (Rendered /\ loading) ~> (~Rendered \/ ~loading)

\* A Save that had set saving ended with a rejected write and reset it.
C25_Witness ==
  /\ view = "channel-config"
  /\ toast = "save_failed"
  /\ ~saving /\ ~loading

\* render(): the blocking error view of the channel controller.
BlockingError ==
  view = "channel-config" /\ opened /\ ~loading /\ error /\ schema = NoSchema

\* C26: when the schema fetch of Open rejects, the controller shows the
\* blocking error and holds no schema, so neither the form nor a button is
\* rendered; session_open is not called and no session is active; and from
\* the blocking error view no step issues a call, there being no retry.
C26_FailedOpenBlocks ==
  [][/\ \A t \in Channel(Waiting("open", "getFormSchema")) :
          GetFormSchemaFail(t) =>
            /\ BlockingError'
            /\ ~MainView' /\ ~FormShown'
            /\ ~sessionActive'
            /\ Issued = {}
            /\ tasks' = EmptyBag
     /\ BlockingError => Issued = {} /\ BlockingError']_vars

\* The schema fetch of Open has failed.
C26_Witness == BlockingError /\ tasks = EmptyBag /\ ~sessionActive

\* C27: a rejected Undo or Redo call sets the error banner and leaves the
\* session usable: sessionActive, the Pending-Change Set, can_undo, can_redo
\* and the schema are unchanged, the form and the buttons stay rendered as
\* they were, and with sessionActive still set the later SetValue, Undo,
\* Redo and Save go through the session.
C27_FailedUndoKeepsSession ==
  [][\A t \in Channel(UndoTasks("sessionUndo")) :
       UndoRedoFail(t) =>
         /\ error'
         /\ UNCHANGED <<sessionActive, pendingChanges, canUndo, canRedo,
                        schema, loading, saving, validationErrors>>
         /\ Issued = {}
         /\ MainView' = MainView
         /\ FormShown' = FormShown]_vars

\* The error banner is shown over the form while the session is active and
\* Undo is offered.
C27_Witness ==
  /\ FormShown /\ error
  /\ sessionActive /\ canUndo /\ ~saving
  /\ IsDirty(pendingChanges)
  /\ Channel(UndoTasks("sessionUndo")) = {}

\* A session_set response carrying the flags cu, cr and the errors errs
\* arrives for the outstanding edit t.
SetResponse(t, cu, cr, errs) ==
  /\ SessionSetOk(t)
  /\ canUndo' = cu /\ canRedo' = cr /\ validationErrors' = errs

\* C28: the response to any outstanding SetValue, an earlier one as well as
\* the latest, can arrive next, and whatever flags and errors the controller
\* holds it then holds exactly those of that response; no arriving response,
\* resolved or rejected, changes the Pending-Change Set.
C28_LastResponseWins ==
  /\ [](\A t \in Channel(Waiting("set", "sessionSet")) :
          \A cu \in BOOLEAN, cr \in BOOLEAN, errs \in ErrorSets :
            ENABLED SetResponse(t, cu, cr, errs))
  /\ [][\A t \in Channel(Waiting("set", "sessionSet")) :
          (SessionSetOk(t) \/ SessionSetFail(t))
            => pendingChanges' = pendingChanges]_vars

\* The response to the later of two edits has arrived while the earlier
\* edit, of another value, is still outstanding.
C28_Witness ==
  /\ FormShown /\ sessionActive
  /\ syncFailed = NoChanges
  /\ \E p \in Params :
       /\ serverEdits[p] = GetEffectiveValue(pendingChanges, schema, p)
       /\ \E t \in Channel(Waiting("set", "sessionSet")) :
            /\ t.arg[p] # None
            /\ t.arg[p] # serverEdits[p]
            /\ CopiesIn(t, tasks) = BagCardinality(tasks)

\* The session_open calls of the channel controller that are in flight.
OpensInFlight ==
  BagCardinality([t \in {u \in BagToSet(tasks) : u.pc = "sessionOpen"} |->
                    CopiesIn(t, tasks)])

\* C29: session_open is in flight only while the server holds no open
\* session of this client, and one at a time, so that at most one Edit
\* Session of the channel is open.
C29_OneSessionAtATime ==
  view = "channel-config" =>
    OpensInFlight + (IF serverSession THEN 1 ELSE 0) <= 1

\* The confirmed Saves whose write request (for a link: whose write
\* requests, one per dirty endpoint) is in flight.
WritesInFlight ==
  BagCardinality([t \in Channel(WriteTasks) \cup Link(LinkWriteTasks) |->
                    CopiesIn(t, tasks)])

\* C30: at most one Save of a controller has its write request in flight at
\* any time, also when Save was invoked again before the confirmation of the
\* first invocation was answered.
C30_OneWriteInFlight == WritesInFlight <= 1

\* C31: an edit made while the write of a Save is in flight is not lost when
\* the write succeeds.  Stated for the Save without a session, whose request
\* carries the set as it was when the write was issued: every entry the set
\* holds when the write succeeds was written by the request, or is still in
\* the set afterwards.
C31_EditDuringSaveKept ==
  [][\A t \in Channel(Waiting("save", "putParamset")) :
       SaveSuccess(t) =>
         \A p \in Params :
           pendingChanges[p] # None =>
             \/ ServerWrite(t)[p] = pendingChanges[p]
             \/ pendingChanges'[p] = pendingChanges[p]]_vars

\* C32: with an active session, the defaults staged by ResetToDefaults are
\* written by the next successful Save: when session_save succeeds with the
\* Pending-Change Set holding the staged defaults, no session_set having
\* failed or being in flight, the request writes every entry of the set.
C32_StagedDefaultsWritten ==
  [][\A t \in Channel(Waiting("save", "sessionSave")) :
       (/\ SaveSuccess(t)
        /\ schema # NoSchema
        /\ IsDirty(pendingChanges)
        /\ pendingChanges = DefaultChanges(schema)
        /\ syncFailed = NoChanges
        /\ Channel(Waiting("set", "sessionSet")) = {})
         => \A p \in Params :
              pendingChanges[p] # None =>
                ServerWrite(t)[p] = pendingChanges[p]]_vars

\* C33: sessionActive is true only while the server holds a session this
\* controller opened: once the reopening session_open of a Discard has
\* settled, an active session of the controller is an open session of the
\* server.
C33_ActiveOnlyWithServerSession ==
  (/\ view = "channel-config"
   /\ sessionActive
   /\ Channel(Waiting("discard", "sessionDiscard")) = {}
   /\ Channel(Waiting("discard", "sessionOpen")) = {})
    => serverSession

\* An outstanding edit that had staged a value, while calls of a Discard
\* are in flight and the Pending-Change Set is still empty: the edit was
\* made before the Discard.
DiscardedEdit(t) ==
  /\ Waiting("discard", "sessionDiscard")
       \cup Waiting("discard", "sessionOpen") # {}
  /\ pendingChanges = NoChanges
  /\ \E p \in Params : t.arg[p] \notin {None, schema[p]}

\* C34: a session_set response of an edit made before a Discard or before
\* the re-fetch after a successful Save does not change the controller
\* after that reset.  While the re-fetch is loading every outstanding edit
\* predates it, and its response leaves validation_errors, can_undo and
\* can_redo as the re-fetch reset them; the response of an edit made before
\* a Discard leaves validation_errors empty and, once session_discard has
\* resolved and reset them, can_undo and can_redo false.
C34_LateResponseIgnored ==
  [][\A t \in Channel(Waiting("set", "sessionSet")) :
       /\ (SessionSetOk(t) /\ loading)
            => UNCHANGED <<validationErrors, canUndo, canRedo>>
       /\ (SessionSetOk(t) /\ DiscardedEdit(t))
            => /\ UNCHANGED validationErrors
               /\ Waiting("discard", "sessionDiscard") = {}
                    => UNCHANGED <<canUndo, canRedo>>]_vars

\* C35: in the link controller a put_link_paramset response with
\* success = false leaves both Pending-Change Sets unchanged and shows no
\* success notification.
C35_UnsuccessfulLinkWriteKeepsSets ==
  [][\A t \in Link(LinkWriteTasks), ep \in Endpoints :
       LinkWriteResolve(t, ep, FALSE) =>
         /\ UNCHANGED <<receiverPendingChanges, senderPendingChanges>>
         /\ toast' # "save_success"]_vars

\* C36: no Pending-Change Set ever holds an entry for a parameter whose
\* writable flag is false.
C36_PendingOnlyWritable ==
  \A p \in FormParams : form.pending[p] # None => form.wr[p]

====
